---- MODULE Spec2Model ----
(***************************************************************************)
(* Model of the users REST API: the pagination link calculator             *)
(* (services/api_pagination_service.py), the users repository, service,    *)
(* request handlers and error handlers.                                    *)
(*                                                                         *)
(* Python strings are sequences of one-character strings, so that          *)
(* re.sub, `in` and str() act on characters as they do in the code.        *)
(* Optional strings (str | None) are records [none, str].                  *)
(***************************************************************************)
EXTENDS Integers, Sequences, FiniteSets, TLC

VARIABLES
    pin,        \* arguments of APIPaginationService.create_response
    pout,       \* the APIPaginationResponse it returned (or "pending")
    users,      \* the set of rows of the users table
    clock,      \* the database's now()
    request,    \* the HTTP request handled last
    response,   \* the HTTP response it was answered with
    sin,        \* a UserService call against a stubbed repository
    sout,       \* the outcome of that call
    ein,        \* an exception about to be raised in a request handler
    eout,       \* the exception raised and the answer of the HTTP boundary
    gone,       \* history: the ids of the rows deleted so far
    mapin,      \* the value handed to a chain of UserMapper conversions
    mapout,     \* the conversions applied so far and what they produced
    engine,     \* DBService.__async_engine: the engine handle, or none
    objects,    \* the container: the object each provider has built so far
    held,       \* connections checked out of the engine and not yet released
    tasks,      \* the requests in progress: each coroutine's position
    dbout       \* the DBService call made last and its outcome

vars == <<pin, pout, users, clock, request, response, sin, sout, ein, eout, gone,
          mapin, mapout, engine, objects, held, tasks, dbout>>

(***************************************************************************)
(* Bounds                                                                  *)
(***************************************************************************)
MaxPage == 11
MaxLimit == 3
MaxTotal == 12
MaxUsers == 2
MaxClock == 3
MaxReqPage == 3
MaxReqLimit == 2

(***************************************************************************)
(* Characters and strings                                                  *)
(***************************************************************************)
NoneStr == [none |-> TRUE, str |-> <<>>]

SomeStr(s) == [none |-> FALSE, str |-> s]

Digits == <<"0", "1", "2", "3", "4", "5", "6", "7", "8", "9">>

\* str(n) for an int n >= 0: its decimal digits
RECURSIVE Str(_)
Str(n) == IF n < 10 THEN <<Digits[n + 1]>> ELSE Str(n \div 10) \o <<Digits[(n % 10) + 1]>>

\* f"{n}" for any int: a leading "-" for a negative one
StrInt(n) == IF n < 0 THEN <<"-">> \o Str(0 - n) ELSE Str(n)

\* s[i:i+len(sub)] == sub  (i is 1-based here)
MatchAt(s, i, sub) ==
    /\ i + Len(sub) - 1 <= Len(s)
    /\ \A k \in 1..Len(sub) : s[i + k - 1] = sub[k]

\* Python's  sub in s
Contains(s, sub) == \E i \in 1..(Len(s) + 1) : MatchAt(s, i, sub)

S_page == <<"p", "a", "g", "e">>

S_limit == <<"l", "i", "m", "i", "t">>

S_page_eq == <<"p", "a", "g", "e", "=">>

\* re.sub(r"(page=)[^&]", rf"\g<1>{n}", s) scanning from position i:
\* every leftmost non-overlapping "page=" followed by ONE character other
\* than "&" is replaced by "page=" and the digits of n.
RECURSIVE ReSubFrom(_, _, _)
ReSubFrom(s, i, n) ==
    IF i > Len(s) THEN <<>>
    ELSE IF MatchAt(s, i, S_page_eq) /\ i + 5 <= Len(s) /\ s[i + 5] # "&"
         THEN S_page_eq \o StrInt(n) \o ReSubFrom(s, i + 6, n)
         ELSE <<s[i]>> \o ReSubFrom(s, i + 1, n)

ReSubPage(s, n) == ReSubFrom(s, 1, n)

(***************************************************************************)
(* URLs: a prefix and a list of query parameters [key, val]                *)
(***************************************************************************)
UrlPrefix ==
    <<"h", "t", "t", "p", ":", "/", "/", "l", "o", "c", "a", "l", "h", "o", "s", "t",
      ":", "5", "0", "0", "2", "/", "u", "s", "e", "r", "s">>

K_per_page == <<"p", "e", "r", "_", "p", "a", "g", "e">>

K_pagesize == <<"p", "a", "g", "e", "s", "i", "z", "e">>

K_sort == <<"s", "o", "r", "t">>

Param(k, v) == [key |-> k, val |-> v]

RECURSIVE RenderParams(_, _)
RenderParams(ps, i) ==
    IF i > Len(ps) THEN <<>>
    ELSE (IF i = 1 THEN <<"?">> ELSE <<"&">>) \o ps[i].key \o <<"=">> \o ps[i].val
         \o RenderParams(ps, i + 1)

\* str(request.url)
RenderUrl(ps) == UrlPrefix \o RenderParams(ps, 1)

HasParam(ps, k) == \E i \in 1..Len(ps) : ps[i].key = k

\* the query with the value of its page parameter set to n, all else kept
SetPageParam(ps, n) ==
    [i \in 1..Len(ps) |-> IF ps[i].key = S_page THEN Param(S_page, StrInt(n)) ELSE ps[i]]

\* The query strings a client sends for page p and limit l.  A query
\* without a page (limit) parameter is a request for page 1 (limit 1).
QueryShapes(p, l) ==
    {<<Param(S_page, StrInt(p)), Param(S_limit, StrInt(l))>>,
     <<Param(S_limit, StrInt(l)), Param(S_page, StrInt(p))>>,
     <<Param(S_page, StrInt(p)), Param(K_sort, <<"a">>), Param(S_limit, StrInt(l))>>,
     <<Param(K_per_page, <<"5">>), Param(S_page, StrInt(p)), Param(S_limit, StrInt(l))>>}
    \cup (IF l = 1 THEN {<<Param(S_page, StrInt(p))>>} ELSE {})
    \cup (IF p = 1 THEN {<<Param(S_limit, StrInt(l))>>,
                         <<Param(S_limit, StrInt(l)), Param(K_pagesize, <<"5">>)>>}
          ELSE {})
    \cup (IF p = 1 /\ l = 1 THEN {<<>>, <<Param(K_sort, <<"a">>)>>} ELSE {})

(***************************************************************************)
(* APIPaginationService                                                    *)
(***************************************************************************)
\* total_records / limit: Python's true division.  The quotient is kept as
\* the exact pair (whole part, remainder); a double holds it closely enough
\* for math.ceil whenever total_records < 2^53.
TrueDiv(a, b) == [whole |-> a \div b, rest |-> a % b]

MathCeilFloor(x) == x.whole

MathCeil(x) == IF x.rest > 0 THEN x.whole + 1 ELSE x.whole

get_total_pages(limit, total_records) == MathCeil(TrueDiv(total_records, limit))

get_previous_page_lt(base_url, page, limit, total_records) ==
    IF page = 1 THEN NoneStr
    ELSE IF total_records - (page - 1) * limit < 0 THEN NoneStr
    ELSE SomeStr(ReSubPage(base_url, page - 1))

get_previous_page(base_url, page, limit, total_records) ==
    IF page = 1 THEN NoneStr
    ELSE IF total_records - (page - 1) * limit <= 0 THEN NoneStr
    ELSE SomeStr(ReSubPage(base_url, page - 1))

get_next_page_lt(base_url, page, limit, total_records) ==
    IF total_records - page * limit < 0 THEN NoneStr
    ELSE IF Contains(base_url, S_page) THEN SomeStr(ReSubPage(base_url, page + 1))
    ELSE IF Contains(base_url, S_limit)
         THEN SomeStr(base_url \o <<"&">> \o S_page_eq \o StrInt(page + 1))
    ELSE SomeStr(base_url \o <<"?">> \o S_page_eq \o StrInt(page + 1)
                 \o <<"&">> \o S_limit \o <<"=", "1">>)

get_next_page(base_url, page, limit, total_records) ==
    IF total_records - page * limit <= 0 THEN NoneStr
    ELSE IF Contains(base_url, S_page) THEN SomeStr(ReSubPage(base_url, page + 1))
    ELSE IF Contains(base_url, S_limit)
         THEN SomeStr(base_url \o <<"&">> \o S_page_eq \o StrInt(page + 1))
    ELSE SomeStr(base_url \o <<"?">> \o S_page_eq \o StrInt(page + 1)
                 \o <<"&">> \o S_limit \o <<"=", "1">>)

\* create_response(base_url, APIPaginationData(page, limit, total_records, records))
create_response(base_url, page, limit, total_records, records) ==
    [page |-> page,
     limit |-> limit,
     total_pages |-> get_total_pages(limit, total_records),
     total_records |-> total_records,
     records |-> records,
     previous |-> get_previous_page(base_url, page, limit, total_records),
     next |-> get_next_page(base_url, page, limit, total_records)]

(***************************************************************************)
(* Values: identifiers, names, emails, timestamps                          *)
(***************************************************************************)
\* uuid.UUID keeps 32 hexadecimal digits
UuidHexLen == 32

\* UserRequest.name: Field(max_length=256)
MaxNameLen == 256

\* a NULL timestamp; now() is never 0
NullTime == 0

HexChars == {"0", "1", "2", "3", "4", "5", "6", "7", "8", "9", "a", "b", "c", "d", "e", "f"}

IsHyphen(c) == c = "-"

NotHyphen(c) == ~IsHyphen(c)

\* the k-th identifier of the pool, as uuid.hex: 31 zeros and a digit
UuidHex(k) == [i \in 1..UuidHexLen |-> IF i = UuidHexLen THEN Digits[k + 1] ELSE "0"]

\* str(uuid): the 8-4-4-4-12 form of the same identifier
UuidDashed(k) ==
    LET h == UuidHex(k)
    IN SubSeq(h, 1, 8) \o <<"-">> \o SubSeq(h, 9, 12) \o <<"-">> \o SubSeq(h, 13, 16)
       \o <<"-">> \o SubSeq(h, 17, 20) \o <<"-">> \o SubSeq(h, 21, 32)

\* uuid.UUID(s): hyphens are dropped; anything but 32 hexadecimal digits
\* raises ValueError
UUIDParse(s) ==
    LET h == SelectSeq(s, NotHyphen)
    IN IF Len(h) = UuidHexLen /\ \A i \in 1..Len(h) : h[i] \in HexChars
       THEN [ok |-> TRUE, hex |-> h]
       ELSE [ok |-> FALSE, hex |-> <<>>]

\* a name of n characters
NameOfLen(n) == [i \in 1..n |-> "n"]

IsAt(c) == c = "@"

\* EmailStr: one "@", a non-empty local part, a domain with an inner dot
IsEmail(s) ==
    /\ Len(SelectSeq(s, IsAt)) = 1
    /\ LET at == CHOOSE i \in 1..Len(s) : s[i] = "@"
       IN /\ at > 1
          /\ \E d \in (at + 2)..(Len(s) - 1) : s[d] = "."
          /\ s[at + 1] # "."

IsSpace(c) == c = " "

\* str.strip()
RECURSIVE Strip(_)
Strip(s) ==
    IF s = <<>> THEN s
    ELSE IF IsSpace(s[1]) THEN Strip(Tail(s))
    ELSE IF IsSpace(s[Len(s)]) THEN Strip(SubSeq(s, 1, Len(s) - 1))
    ELSE s

UpperCase == <<"A", "B", "C", "D", "E", "F", "G", "H", "I", "J", "K", "L", "M",
               "N", "O", "P", "Q", "R", "S", "T", "U", "V", "W", "X", "Y", "Z">>

LowerCase == <<"a", "b", "c", "d", "e", "f", "g", "h", "i", "j", "k", "l", "m",
               "n", "o", "p", "q", "r", "s", "t", "u", "v", "w", "x", "y", "z">>

\* str.lower() of one character
Lower(c) ==
    IF \E k \in 1..Len(UpperCase) : UpperCase[k] = c
    THEN LowerCase[CHOOSE k \in 1..Len(UpperCase) : UpperCase[k] = c]
    ELSE c

\* the value an EmailStr field holds after validation: surrounding
\* whitespace is stripped and the domain is lower-cased, the local part is
\* kept as it was sent
validate_email(s) ==
    LET email == Strip(s)
    IN IF ~IsEmail(email) THEN [ok |-> FALSE, email |-> email]
       ELSE LET at == CHOOSE i \in 1..Len(email) : email[i] = "@"
            IN [ok |-> TRUE,
                email |-> [i \in 1..Len(email) |->
                              IF i > at THEN Lower(email[i]) ELSE email[i]]]

E_a == <<"a", "@", "x", ".", "c">>

\* the address of E_a with its domain in upper case
E_A == <<"a", "@", "X", ".", "C">>

E_b == <<"b", "@", "x", ".", "c">>

E_c == <<"c", "@", "x", ".", "c">>

E_bad == <<"n", "o", "t", "a", "n", "e", "m", "a", "i", "l">>

IsDigit(c) == \E d \in 1..10 : Digits[d] = c

DigitVal(c) == (CHOOSE d \in 1..10 : Digits[d] = c) - 1

RECURSIVE DigitsVal(_, _)
DigitsVal(s, n) == IF n = 0 THEN 0 ELSE 10 * DigitsVal(s, n - 1) + DigitVal(s[n])

\* the int a query parameter's text stands for, if it is one
ParseInt(s) ==
    LET neg == Len(s) > 0 /\ s[1] = "-"
        body == IF neg THEN Tail(s) ELSE s
    IN IF Len(body) > 0 /\ \A i \in 1..Len(body) : IsDigit(body[i])
       THEN [ok |-> TRUE, val |-> IF neg THEN 0 - DigitsVal(body, Len(body))
                                  ELSE DigitsVal(body, Len(body))]
       ELSE [ok |-> FALSE, val |-> 0]

(***************************************************************************)
(* server_error.py                                                         *)
(***************************************************************************)
HTTP_200_OK == 200

HTTP_201_CREATED == 201

HTTP_404_NOT_FOUND == 404

HTTP_422_UNPROCESSABLE_ENTITY == 422

HTTP_500_INTERNAL_SERVER_ERROR == 500

\* an absent status_code argument (None); `if status_code:` takes 0 alike
NoStatus == 0

\* no Detail object: where a ServerError is raised without one, HTTPException
\* stores the status phrase, a str that has no cause attribute
NoDetail == [none |-> TRUE, cause |-> "None"]

Detail(cause) == [none |-> FALSE, cause |-> cause]

\* ServerError.__init__(message, status_code, detail)
ServerError(message, status_code, detail) ==
    [type |-> "ServerError",
     message |-> message,
     status_code |-> IF status_code # NoStatus THEN status_code
                     ELSE HTTP_500_INTERNAL_SERVER_ERROR,
     is_operational |-> (status_code # NoStatus /\ StrInt(status_code)[1] = "4"),
     detail |-> detail]

\* any exception that is not a ServerError: it has no status_code attribute
PlainError(type, text) ==
    [type |-> type, message |-> text, status_code |-> NoStatus,
     is_operational |-> FALSE, detail |-> NoDetail]

Return(v) == [kind |-> "return", value |-> v]

Raise(e) == [kind |-> "raise", err |-> e]

\* the codes http.HTTPStatus knows
HTTPStatusCodes ==
    (100..103) \cup (200..208) \cup {226} \cup (300..308) \cup (400..418)
    \cup (421..426) \cup {428, 429, 431, 451} \cup (500..508) \cup {510, 511}

\* the call ServerError(message, status_code, detail): it begins with
\* super().__init__(status_code, detail), where HTTPException looks up
\* http.HTTPStatus(status_code).phrase when there is no detail
ServerErrorInit(message, status_code, detail) ==
    IF detail.none /\ status_code \notin HTTPStatusCodes
    THEN Raise(PlainError("ValueError", "is not a valid HTTPStatus"))
    ELSE Return(ServerError(message, status_code, detail))

(***************************************************************************)
(* user_models.py, user_mapper.py, dict_to_obj.py                          *)
(***************************************************************************)
\* the Python value None where a User (or a list, or a count) is expected
None == [is_none |-> TRUE]

\* UserRequest validation: name is a str of at most 256 characters and
\* email is an EmailStr
ValidUserRequestNoEmail(body) == Len(body.name) <= MaxNameLen

ValidUserRequest(body) == Len(body.name) <= MaxNameLen /\ validate_email(body.email).ok

\* the UserRequest a valid body is parsed into
UserRequest(body) == [name |-> body.name, email |-> validate_email(body.email).email]

\* UserMapper.to_domain(user_request): the request has no id and no timestamps
to_domain_request(user_request) ==
    [is_none |-> FALSE, id |-> NoneStr, name |-> user_request.name,
     email |-> user_request.email, created_at |-> NullTime, updated_at |-> NullTime]

\* UserMapper.to_persistence(user)
to_persistence(user) == [name |-> user.name, email |-> user.email]

\* DictToObj(row._asdict()): a UUID value becomes its hex string
DictToObj(row) ==
    [id |-> row.id.hex, name |-> row.name, email |-> row.email,
     created_at |-> row.created_at, updated_at |-> row.updated_at]

\* UserMapper.to_domain(obj) for a storage row
to_domain(obj) ==
    [is_none |-> FALSE, id |-> SomeStr(obj.id), name |-> obj.name, email |-> obj.email,
     created_at |-> obj.created_at, updated_at |-> obj.updated_at]

\* UserMapper.to_response(user): UserResponse requires id and created_at
to_response(user) ==
    IF user.id.none \/ user.created_at = NullTime
    THEN Raise(PlainError("ValidationError", "validation error for UserResponse"))
    ELSE Return([id |-> user.id.str, name |-> user.name, email |-> user.email,
                 created_at |-> user.created_at, updated_at |-> user.updated_at])

(***************************************************************************)
(* user_repository.py: each operation is one transaction on the table      *)
(***************************************************************************)
RowWithId(table, hex) == CHOOSE r \in table : r.id.hex = hex

HasId(table, hex) == \E r \in table : r.id.hex = hex

\* ORDER BY created_at DESC
RECURSIVE SortDesc(_)
SortDesc(rows) ==
    IF rows = {} THEN <<>>
    ELSE LET m == CHOOSE r \in rows : \A q \in rows : q.created_at <= r.created_at
         IN <<m>> \o SortDesc(rows \ {m})

Min(a, b) == IF a < b THEN a ELSE b

\* LIMIT limit OFFSET offset over an ordered result
LimitOffset(seq, limit, offset) == SubSeq(seq, offset + 1, Min(offset + limit, Len(seq)))

\* the except branch of every operation: rollback, then
\* raise ServerError(message, 500, Detail(context, cause=str(err.__cause__)))
RepoFailure(message, cause, table) ==
    [res |-> Raise(ServerError(message, HTTP_500_INTERNAL_SERVER_ERROR, Detail(cause))),
     table |-> table]

\* `async with self.db_service.async_engine.connect()` stands before the try:
\* a failure to connect leaves the operation as the driver's own exception
ConnectFailure(table) ==
    [res |-> Raise(PlainError("OSError", "connection refused")), table |-> table]

Faults == {"none", "connect", "execute"}

create_user_unchecked(table, user, newid, now, fault) ==
    LET message == "An error occurred when creating a user into database"
        row == [id |-> [hex |-> newid], name |-> to_persistence(user).name,
                email |-> to_persistence(user).email,
                created_at |-> now, updated_at |-> NullTime]
    IN IF fault = "connect" THEN ConnectFailure(table)
       ELSE IF fault = "execute" THEN RepoFailure(message, "ConnectionError", table)
       ELSE IF HasId(table, newid)
            THEN RepoFailure(message, "UniqueViolationError", table)
       ELSE [res |-> Return(to_domain(DictToObj(row))), table |-> table \cup {row}]

create_user_stamped(table, user, newid, now, fault) ==
    LET message == "An error occurred when creating a user into database"
        row == [id |-> [hex |-> newid], name |-> to_persistence(user).name,
                email |-> to_persistence(user).email,
                created_at |-> now, updated_at |-> now]
    IN IF fault = "connect" THEN ConnectFailure(table)
       ELSE IF fault = "execute" THEN RepoFailure(message, "ConnectionError", table)
       ELSE IF HasId(table, newid) \/ \E r \in table : r.email = row.email
            THEN RepoFailure(message, "UniqueViolationError", table)
       ELSE [res |-> Return(to_domain(DictToObj(row))), table |-> table \cup {row}]

\* create_user(user): INSERT ... RETURNING, commit.  newid is the uuid4 the
\* column default draws, now the database's now(), fault the step that fails
\* (none, the connect, or the statement).
create_user(table, user, newid, now, fault) ==
    LET message == "An error occurred when creating a user into database"
        row == [id |-> [hex |-> newid], name |-> to_persistence(user).name,
                email |-> to_persistence(user).email,
                created_at |-> now, updated_at |-> NullTime]
    IN IF fault = "connect" THEN ConnectFailure(table)
       ELSE IF fault = "execute" THEN RepoFailure(message, "ConnectionError", table)
       ELSE IF HasId(table, newid) \/ \E r \in table : r.email = row.email
            THEN RepoFailure(message, "UniqueViolationError", table)
       ELSE [res |-> Return(to_domain(DictToObj(row))), table |-> table \cup {row}]

read_and_count_users_next_page(table, page, limit, fault) ==
    LET message == "An error occurred when reading and counting users from database"
        offset == page * limit
        rows == LimitOffset(SortDesc(table), limit, offset)
    IN IF fault = "connect" THEN ConnectFailure(table)
       ELSE IF fault = "execute" THEN RepoFailure(message, "ConnectionError", table)
       ELSE IF limit < 0 THEN RepoFailure(message, "InvalidRowCountInLimitClauseError", table)
       ELSE IF offset < 0
            THEN RepoFailure(message, "InvalidRowCountInResultOffsetClauseError", table)
       ELSE [res |-> Return([is_none |-> FALSE,
                             records_none |-> FALSE,
                             records |-> [i \in 1..Len(rows) |-> to_domain(DictToObj(rows[i]))],
                             total_none |-> FALSE,
                             total |-> Cardinality(table)]),
             table |-> table]

\* read_and_count_users(page, limit): the page's rows, newest first, and the
\* count of all rows
read_and_count_users(table, page, limit, fault) ==
    LET message == "An error occurred when reading and counting users from database"
        offset == (page - 1) * limit
        rows == LimitOffset(SortDesc(table), limit, offset)
    IN IF fault = "connect" THEN ConnectFailure(table)
       ELSE IF fault = "execute" THEN RepoFailure(message, "ConnectionError", table)
       ELSE IF limit < 0 THEN RepoFailure(message, "InvalidRowCountInLimitClauseError", table)
       ELSE IF offset < 0
            THEN RepoFailure(message, "InvalidRowCountInResultOffsetClauseError", table)
       ELSE [res |-> Return([is_none |-> FALSE,
                             records_none |-> FALSE,
                             records |-> [i \in 1..Len(rows) |-> to_domain(DictToObj(rows[i]))],
                             total_none |-> FALSE,
                             total |-> Cardinality(table)]),
             table |-> table]

\* read_user(user_id)
read_user(table, user_id, fault) ==
    LET message == "An error occurred when reading a user from database"
        uuid == UUIDParse(user_id)
    IN IF fault = "connect" THEN ConnectFailure(table)
       ELSE IF ~uuid.ok THEN RepoFailure(message, "None", table)
       ELSE IF fault = "execute" THEN RepoFailure(message, "ConnectionError", table)
       ELSE IF ~HasId(table, uuid.hex) THEN [res |-> Return(None), table |-> table]
       ELSE [res |-> Return(to_domain(DictToObj(RowWithId(table, uuid.hex)))), table |-> table]

update_user_recreated(table, user_id, user, now, fault) ==
    LET message == "An error occurred when updating a user from database"
        uuid == UUIDParse(user_id)
    IN IF fault = "connect" THEN ConnectFailure(table)
       ELSE IF ~uuid.ok THEN RepoFailure(message, "None", table)
       ELSE IF fault = "execute" THEN RepoFailure(message, "ConnectionError", table)
       ELSE IF ~HasId(table, uuid.hex) THEN [res |-> Return(None), table |-> table]
       ELSE LET old == RowWithId(table, uuid.hex)
                new == [old EXCEPT !.name = user.name, !.email = user.email,
                                   !.created_at = now, !.updated_at = now]
            IN IF \E r \in table \ {old} : r.email = user.email
               THEN RepoFailure(message, "UniqueViolationError", table)
               ELSE [res |-> Return(to_domain(DictToObj(new))),
                     table |-> (table \ {old}) \cup {new}]

\* update_user(user_id, user): UPDATE ... RETURNING, commit; updated_at is
\* set by the column's onupdate
update_user(table, user_id, user, now, fault) ==
    LET message == "An error occurred when updating a user from database"
        uuid == UUIDParse(user_id)
    IN IF fault = "connect" THEN ConnectFailure(table)
       ELSE IF ~uuid.ok THEN RepoFailure(message, "None", table)
       ELSE IF fault = "execute" THEN RepoFailure(message, "ConnectionError", table)
       ELSE IF ~HasId(table, uuid.hex) THEN [res |-> Return(None), table |-> table]
       ELSE LET old == RowWithId(table, uuid.hex)
                new == [old EXCEPT !.name = user.name, !.email = user.email,
                                   !.updated_at = now]
            IN IF \E r \in table \ {old} : r.email = user.email
               THEN RepoFailure(message, "UniqueViolationError", table)
               ELSE [res |-> Return(to_domain(DictToObj(new))),
                     table |-> (table \ {old}) \cup {new}]

delete_user_kept(table, user_id, fault) ==
    LET message == "An error occurred when deleting a user from database"
        uuid == UUIDParse(user_id)
    IN IF fault = "connect" THEN ConnectFailure(table)
       ELSE IF ~uuid.ok THEN RepoFailure(message, "None", table)
       ELSE IF fault = "execute" THEN RepoFailure(message, "ConnectionError", table)
       ELSE IF ~HasId(table, uuid.hex) THEN [res |-> Return(None), table |-> table]
       ELSE LET old == RowWithId(table, uuid.hex)
            IN [res |-> Return(to_domain(DictToObj(old))), table |-> table]

\* delete_user(user_id): DELETE ... RETURNING, commit
delete_user(table, user_id, fault) ==
    LET message == "An error occurred when deleting a user from database"
        uuid == UUIDParse(user_id)
    IN IF fault = "connect" THEN ConnectFailure(table)
       ELSE IF ~uuid.ok THEN RepoFailure(message, "None", table)
       ELSE IF fault = "execute" THEN RepoFailure(message, "ConnectionError", table)
       ELSE IF ~HasId(table, uuid.hex) THEN [res |-> Return(None), table |-> table]
       ELSE LET old == RowWithId(table, uuid.hex)
            IN [res |-> Return(to_domain(DictToObj(old))), table |-> table \ {old}]

(***************************************************************************)
(* user_service.py                                                         *)
(***************************************************************************)
ServiceOps == {"create", "list", "read", "update", "delete"}

FaultMessage(op) ==
    CASE op = "create" -> "An error occurred when creating a user"
      [] op = "list" -> "An error occurred when reading and counting users"
      [] op = "read" -> "An error occurred when reading a user"
      [] op = "update" -> "An error occurred when updating a user"
      [] op = "delete" -> "An error occurred when deleting a user"

AbsenceMessage(op) ==
    CASE op = "create" -> "User could not be created"
      [] op = "list" -> "Users could not be read and counted"
      [] op = "read" -> "User could not be read"
      [] op = "update" -> "User could not be updated"
      [] op = "delete" -> "User could not be removed"

AbsenceStatusAll404(op) == HTTP_404_NOT_FOUND

\* the status each operation raises when the repository returned None
AbsenceStatus(op) ==
    IF op \in {"read", "update", "delete"} THEN HTTP_404_NOT_FOUND
    ELSE HTTP_500_INTERNAL_SERVER_ERROR

\* `records is None or total is None` for the list, `user is None` otherwise
IsAbsent(op, value) ==
    IF op = "list" THEN value.records_none \/ value.total_none ELSE value.is_none

\* the repository method each operation awaits
RepoMethod(op) ==
    CASE op = "create" -> "create_user"
      [] op = "list" -> "read_and_count_users"
      [] op = "read" -> "read_user"
      [] op = "update" -> "update_user"
      [] op = "delete" -> "delete_user"

\* the repository invocations one call of the operation makes, in order:
\* each method body holds a single await of its repository method, given
\* the operation's own arguments
RepoCalls(op, args) == <<[method |-> RepoMethod(op), args |-> args]>>

\* register_user / retrieve_and_count_users / retrieve_user / replace_user /
\* remove_user, given what the one repository call did
UserService(op, repo) ==
    IF repo.kind = "raise"
    THEN IF repo.err.type = "ServerError"
         THEN IF repo.err.detail.none
              THEN Raise(PlainError("AttributeError", "object has no attribute 'cause'"))
              ELSE Raise(ServerError(FaultMessage(op), HTTP_500_INTERNAL_SERVER_ERROR,
                                     Detail(repo.err.detail.cause)))
         ELSE Raise(ServerError(FaultMessage(op), HTTP_500_INTERNAL_SERVER_ERROR,
                                Detail(repo.err.message)))
    ELSE IF IsAbsent(op, repo.value)
         THEN Raise(ServerError(AbsenceMessage(op), AbsenceStatus(op), Detail("None")))
    ELSE Return(repo.value)

(***************************************************************************)
(* api_error_handler.py and the handler table of server.py                 *)
(***************************************************************************)
ErrorBody(message, detail, is_operational) ==
    [message |-> message, detail |-> detail, is_operational |-> is_operational]

\* handle_request_validation_error
handle_request_validation_error(error) ==
    Return([status |-> HTTP_422_UNPROCESSABLE_ENTITY, kind |-> "error",
            body |-> ErrorBody("Validation failed", Detail(error.message), TRUE)])

\* handle_server_error: APIErrorResponse.detail is a Detail, and the status
\* phrase of a ServerError raised without one does not validate as a Detail
handle_server_error(error) ==
    IF error.detail.none
    THEN Raise(PlainError("ValidationError", "validation error for APIErrorResponse"))
    ELSE Return([status |-> error.status_code, kind |-> "error",
                 body |-> ErrorBody(error.message, error.detail, error.is_operational)])

\* handle_common_error: status_code=error.status_code is read from an
\* exception that has no such attribute unless it is an HTTPException
handle_common_error(error) ==
    IF error.type = "ServerError"
    THEN Return([status |-> error.status_code, kind |-> "error",
                 body |-> ErrorBody(error.message, Detail(error.message), FALSE)])
    ELSE Raise(PlainError("AttributeError", "object has no attribute 'status_code'"))

\* exception_handlers = {RequestValidationError: ..., ServerError: ...,
\* Exception: ...}: the handler of the exception's class answers.  When the
\* handler itself raises, the application sends no response at all.
ExceptionDispatch(error) ==
    LET handled == IF error.type = "RequestValidationError"
                   THEN handle_request_validation_error(error)
                   ELSE IF error.type = "ServerError" THEN handle_server_error(error)
                   ELSE handle_common_error(error)
    IN IF handled.kind = "return"
       THEN [status |-> handled.value.status, kind |-> handled.value.kind,
             body |-> handled.value.body, raised |-> error.type]
       ELSE [status |-> NoStatus, kind |-> "crash",
             body |-> ErrorBody(handled.err.message, NoDetail, FALSE),
             raised |-> error.type]

(***************************************************************************)
(* user_controller.py                                                      *)
(***************************************************************************)
RequestValidationError == PlainError("RequestValidationError", "validation")

\* what a handler did on the way: whether the body passed validation, how
\* often the service and the repository were called, what the repository did
Log(validated, service_calls, repo_calls, repo) ==
    [validated |-> validated, service_calls |-> service_calls,
     repo_calls |-> repo_calls, repo |-> repo]

RepoKind(op, res) ==
    IF res.kind = "raise" THEN "raise"
    ELSE IF IsAbsent(op, res.value) THEN "absent" ELSE "return"

\* the tail of add_user / fetch_user / renew_user / destroy_user: map the
\* returned user to a UserResponse and set the status code
Respond(svc, status) ==
    IF svc.kind = "raise" THEN ExceptionDispatch(svc.err)
    ELSE LET mapped == to_response(svc.value)
         IN IF mapped.kind = "raise" THEN ExceptionDispatch(mapped.err)
            ELSE [status |-> status, kind |-> "user", body |-> mapped.value,
                  raised |-> "none"]

Rejected(table) ==
    [resp |-> ExceptionDispatch(RequestValidationError), table |-> table,
     log |-> Log(FALSE, 0, 0, "none")]

\* POST /users
add_user(table, body, newid, now, fault) ==
    IF ~ValidUserRequest(body) THEN Rejected(table)
    ELSE LET repo == create_user(table, to_domain_request(UserRequest(body)), newid, now,
                                  fault)
         IN [resp |-> Respond(UserService("create", repo.res), HTTP_201_CREATED),
             table |-> repo.table,
             log |-> Log(TRUE, 1, 1, RepoKind("create", repo.res))]

\* GET /users/{user_id}
fetch_user(table, user_id, fault) ==
    LET repo == read_user(table, user_id, fault)
    IN [resp |-> Respond(UserService("read", repo.res), HTTP_200_OK),
        table |-> repo.table,
        log |-> Log(TRUE, 1, 1, RepoKind("read", repo.res))]

\* PUT /users/{user_id}
renew_user(table, user_id, body, now, fault) ==
    IF ~ValidUserRequest(body) THEN Rejected(table)
    ELSE LET repo == update_user(table, user_id, to_domain_request(UserRequest(body)), now,
                                  fault)
         IN [resp |-> Respond(UserService("update", repo.res), HTTP_200_OK),
             table |-> repo.table,
             log |-> Log(TRUE, 1, 1, RepoKind("update", repo.res))]

\* DELETE /users/{user_id}
destroy_user(table, user_id, fault) ==
    LET repo == delete_user(table, user_id, fault)
    IN [resp |-> Respond(UserService("delete", repo.res), HTTP_200_OK),
        table |-> repo.table,
        log |-> Log(TRUE, 1, 1, RepoKind("delete", repo.res))]

\* a query parameter declared `int | None = 1`: absent gives 1, text that
\* is no int fails validation
QueryInt(query, key) ==
    IF HasParam(query, key)
    THEN ParseInt((CHOOSE q \in {query[i] : i \in 1..Len(query)} : q.key = key).val)
    ELSE [ok |-> TRUE, val |-> 1]

\* math.ceil(total_records / limit) divides by limit
create_response_call(base_url, page, limit, total_records, records) ==
    IF limit = 0 THEN Raise(PlainError("ZeroDivisionError", "division by zero"))
    ELSE Return(create_response(base_url, page, limit, total_records, records))

\* GET /users
fetch_paginated_users(table, query, fault) ==
    LET page == QueryInt(query, S_page)
        limit == QueryInt(query, S_limit)
    IN IF ~page.ok \/ ~limit.ok THEN Rejected(table)
       ELSE LET repo == read_and_count_users(table, page.val, limit.val, fault)
                svc == UserService("list", repo.res)
                made == create_response_call(RenderUrl(query), page.val, limit.val,
                                             svc.value.total, svc.value.records)
            IN [resp |-> IF svc.kind = "raise" THEN ExceptionDispatch(svc.err)
                         ELSE IF made.kind = "raise" THEN ExceptionDispatch(made.err)
                         ELSE [status |-> HTTP_200_OK, kind |-> "page", body |-> made.value,
                               raised |-> "none"],
                table |-> repo.table,
                log |-> Log(TRUE, 1, 1, RepoKind("list", repo.res))]

(***************************************************************************)
(* Spec: the running server, one request handled at a time                 *)
(***************************************************************************)
\* the identifiers uuid4 may draw
IdPool == {UuidHex(k) : k \in 1..MaxUsers}

S_abc == <<"a", "b", "c">>

\* the {user_id} path segments a client sends
PathIds == IdPool \cup {UuidDashed(1), S_abc}

\* the request bodies: valid ones with the shortest and the longest name and
\* two addresses, one of them also with its domain in upper case, one with
\* a bad email, one with a name that is too long
Bodies ==
    {[name |-> <<>>, email |-> E_a],
     [name |-> NameOfLen(MaxNameLen), email |-> E_a],
     [name |-> NameOfLen(MaxNameLen), email |-> E_b],
     [name |-> NameOfLen(MaxNameLen), email |-> E_A],
     [name |-> <<>>, email |-> E_c],
     [name |-> <<>>, email |-> E_bad],
     [name |-> NameOfLen(MaxNameLen + 1), email |-> E_a]}

NoBody == [name |-> <<>>, email |-> <<>>]

\* the queries of GET /users: page and limit explicit, or left to their
\* defaults, or negative, or no integer
Queries ==
    {<<Param(S_page, StrInt(p)), Param(S_limit, StrInt(l))>> :
        p \in 0..MaxReqPage, l \in 0..MaxReqLimit}
    \cup {<<>>, <<Param(S_limit, <<"2">>)>>, <<Param(S_page, <<"x">>)>>,
          <<Param(S_page, StrInt(0 - 1)), Param(S_limit, <<"1">>)>>,
          <<Param(S_page, <<"1">>), Param(S_limit, StrInt(0 - 1))>>}

NoPageIn == [query |-> <<>>, base_url |-> <<>>, page |-> 1, limit |-> 1, total_records |-> 0]

NoPageOut == [done |-> FALSE]

NoHttp == [method |-> "none", user_id |-> <<>>, body |-> NoBody, query |-> <<>>,
           fault |-> "none"]

NoResponse == [status |-> NoStatus, kind |-> "none", raised |-> "none",
               log |-> Log(FALSE, 0, 0, "none")]

NoErr == [stage |-> "none"]

NoSvc == [done |-> FALSE]

NoMap == [stage |-> "none"]

\* no mapper chain is under way
MapperQuiet == mapin = NoMap /\ mapout = NoMap

\* DBService.__init__: self.__async_engine = None
NoEngine == [none |-> TRUE]

NoDB == [op |-> "none"]

Tasks == {"t1", "t2"}

NoTask == [pc |-> "idle"]

Providers == {"db_service_provider", "user_repository_provider",
              "health_check_service_provider", "user_service_provider",
              "api_pagination_service_provider"}

\* no provider has built its object
NoObjects == [p \in Providers |-> 0]

\* the database layer is not exercised
DBQuiet ==
    /\ engine = NoEngine
    /\ objects = NoObjects
    /\ held = 0
    /\ tasks = [t \in Tasks |-> NoTask]
    /\ dbout = NoDB

Init ==
    /\ pin = NoPageIn
    /\ pout = NoPageOut
    /\ users = {}
    /\ clock = 0
    /\ request = NoHttp
    /\ response = NoResponse
    /\ sin = NoSvc
    /\ sout = NoSvc
    /\ ein = NoErr
    /\ eout = NoErr
    /\ gone = {}
    /\ MapperQuiet
    /\ DBQuiet

\* one request is handled at a time: the next one is taken up when the
\* exchange before it is over
Idle == request = NoHttp

\* the request is answered: the table, the clock and the record of the
\* exchange move together
Answer(req, handled) ==
    /\ request' = req
    /\ response' = [status |-> handled.resp.status, kind |-> handled.resp.kind,
                    body |-> handled.resp.body, raised |-> handled.resp.raised,
                    log |-> handled.log]
    /\ users' = handled.table
    /\ clock' = IF handled.table # users THEN clock + 1 ELSE clock
    /\ gone' = gone \cup ({r.id.hex : r \in users} \ {r.id.hex : r \in handled.table})
    /\ UNCHANGED <<pin, pout, sin, sout, ein, eout, mapin, mapout,
                 engine, objects, held, tasks, dbout>>

\* uuid4 does not draw an identifier a second time once its row is deleted;
\* the clock is bounded: a request that would write past MaxClock is left out
AddUser ==
    /\ Idle
    /\ \E body \in Bodies, newid \in IdPool \ gone, fault \in Faults :
           /\ add_user(users, body, newid, clock + 1, fault).table # users => clock < MaxClock
           /\ Cardinality(users) < MaxUsers
           /\ Answer([NoHttp EXCEPT !.method = "POST", !.body = body, !.fault = fault],
                     add_user(users, body, newid, clock + 1, fault))

FetchPaginatedUsers ==
    /\ Idle
    /\ \E query \in Queries, fault \in Faults :
           Answer([NoHttp EXCEPT !.method = "LIST", !.query = query, !.fault = fault],
                  fetch_paginated_users(users, query, fault))

FetchUser ==
    /\ Idle
    /\ \E user_id \in PathIds, fault \in Faults :
           Answer([NoHttp EXCEPT !.method = "GET", !.user_id = user_id, !.fault = fault],
                  fetch_user(users, user_id, fault))

RenewUser ==
    /\ Idle
    /\ \E user_id \in PathIds, body \in Bodies, fault \in Faults :
           /\ renew_user(users, user_id, body, clock + 1, fault).table # users
                 => clock < MaxClock
           /\ Answer([NoHttp EXCEPT !.method = "PUT", !.user_id = user_id, !.body = body,
                                    !.fault = fault],
                     renew_user(users, user_id, body, clock + 1, fault))

DestroyUser ==
    /\ Idle
    /\ \E user_id \in PathIds, fault \in Faults :
           Answer([NoHttp EXCEPT !.method = "DELETE", !.user_id = user_id, !.fault = fault],
                  destroy_user(users, user_id, fault))

\* the response is sent and the exchange is over
Done ==
    /\ ~Idle
    /\ request' = NoHttp
    /\ response' = NoResponse
    /\ UNCHANGED <<pin, pout, users, clock, sin, sout, ein, eout, gone, mapin, mapout,
                 engine, objects, held, tasks, dbout>>

Next == AddUser \/ FetchPaginatedUsers \/ FetchUser \/ RenewUser \/ DestroyUser \/ Done

Spec == Init /\ [][Next]_vars

(***************************************************************************)
(* SpecService: UserService over a stubbed repository, as the unit tests   *)
(* run it                                                                  *)
(***************************************************************************)
StubUsers ==
    {to_domain([id |-> h, name |-> <<"a">>, email |-> e, created_at |-> 1, updated_at |-> u]) :
        h \in IdPool, e \in {E_a, E_b}, u \in {NullTime, 2}}

StubLists ==
    {[is_none |-> FALSE, records_none |-> rn, records |-> rs, total_none |-> tn, total |-> t] :
        rn \in BOOLEAN, tn \in BOOLEAN,
        rs \in {<<>>} \cup {<<u>> : u \in StubUsers}, t \in 0..1}

StubErrors ==
    {PlainError("Exception", "failed"),
     ServerError("An error occurred in the repository", HTTP_500_INTERNAL_SERVER_ERROR,
                 Detail("ConnectionError")),
     ServerError("Async engine is None!", HTTP_500_INTERNAL_SERVER_ERROR, NoDetail)}

\* what the stubbed repository method does when it is called
Stubs(op) ==
    {Raise(e) : e \in StubErrors}
    \cup (IF op = "list" THEN {Return(l) : l \in StubLists}
          ELSE {Return(None)} \cup {Return(u) : u \in StubUsers})

\* the arguments the test hands to the operation
ServiceArgs(op) ==
    LET user == to_domain_request([name |-> <<"a">>, email |-> E_a])
    IN CASE op = "create" -> {<<user>>}
         [] op = "list" -> {<<p, l>> : p \in 1..2, l \in 1..2}
         [] op = "read" -> {<<h>> : h \in IdPool}
         [] op = "update" -> {<<h, user>> : h \in IdPool}
         [] op = "delete" -> {<<h>> : h \in IdPool}

InitService ==
    /\ \E op \in ServiceOps : \E stub \in Stubs(op) : \E args \in ServiceArgs(op) :
          sin = [op |-> op, stub |-> stub, args |-> args]
    /\ sout = NoSvc
    /\ pin = NoPageIn
    /\ pout = NoPageOut
    /\ users = {}
    /\ clock = 0
    /\ request = NoHttp
    /\ response = NoResponse
    /\ ein = NoErr
    /\ eout = NoErr
    /\ gone = {}
    /\ MapperQuiet
    /\ DBQuiet

\* one call of a UserService method
ServiceCall ==
    /\ ~sout.done
    /\ sout' = [done |-> TRUE, res |-> UserService(sin.op, sin.stub),
                 calls |-> RepoCalls(sin.op, sin.args)]
    /\ UNCHANGED <<pin, pout, users, clock, request, response, sin, ein, eout, gone, mapin, mapout,
                 engine, objects, held, tasks, dbout>>

NextService == ServiceCall

SpecService == InitService /\ [][NextService]_vars

(***************************************************************************)
(* SpecPage: create_response as a pure function of its arguments           *)
(***************************************************************************)
\* Every query QueryShapes offers, also with a page or limit that the query
\* does not carry (create_response called directly, as the unit tests do).
AllShapes(p, l) ==
    {<<>>,
     <<Param(S_page, StrInt(p))>>,
     <<Param(S_limit, StrInt(l))>>,
     <<Param(S_page, StrInt(p)), Param(S_limit, StrInt(l))>>,
     <<Param(S_limit, StrInt(l)), Param(S_page, StrInt(p))>>,
     <<Param(S_page, StrInt(p)), Param(K_sort, <<"a">>), Param(S_limit, StrInt(l))>>,
     <<Param(K_per_page, <<"5">>), Param(S_page, StrInt(p)), Param(S_limit, StrInt(l))>>,
     <<Param(S_limit, StrInt(l)), Param(K_pagesize, <<"5">>)>>,
     <<Param(K_sort, <<"a">>)>>}

InitPage ==
    /\ \E p \in 1..MaxPage, l \in 1..MaxLimit, t \in 0..MaxTotal :
         \E q \in AllShapes(p, l) :
            pin = [query |-> q, base_url |-> RenderUrl(q), page |-> p, limit |-> l,
                   total_records |-> t]
    /\ pout = NoPageOut
    /\ users = {}
    /\ clock = 0
    /\ request = NoHttp
    /\ response = NoResponse
    /\ sin = NoSvc
    /\ sout = NoSvc
    /\ ein = NoErr
    /\ eout = NoErr
    /\ gone = {}
    /\ MapperQuiet
    /\ DBQuiet

\* api_pagination_service.create_response(base_url, api_pagination_data)
CreateResponse ==
    /\ ~pout.done
    /\ pout' = [done |-> TRUE,
                res |-> create_response(pin.base_url, pin.page, pin.limit,
                                        pin.total_records, <<>>)]
    /\ UNCHANGED <<pin, users, clock, request, response, sin, sout, ein, eout, gone, mapin, mapout,
                 engine, objects, held, tasks, dbout>>

NextPage == CreateResponse

SpecPage == InitPage /\ [][NextPage]_vars

(***************************************************************************)
(* SpecError: an exception is raised in a request handler and reaches the  *)
(* exception handlers of server.py                                         *)
(***************************************************************************)
\* status_code arguments: none, client errors, server errors
ErrorStatuses == {NoStatus, 400, 404, 409, 422, 499, 500, 503, 599}

ErrorDetails == {NoDetail, Detail("None"), Detail("ConnectionError")}

ErrorMessages == {"Async engine is None!", "User could not be read"}

\* what a handler is about to raise: a ServerError it constructs, the
\* framework's RequestValidationError, or an exception of another class
ErrorInputs ==
    {[class |-> "ServerError", message |-> m, status_code |-> c, detail |-> d] :
        m \in ErrorMessages, c \in ErrorStatuses, d \in ErrorDetails}
    \cup {[class |-> t, message |-> "failed", status_code |-> NoStatus, detail |-> NoDetail] :
            t \in {"RequestValidationError", "ZeroDivisionError", "AttributeError",
                   "ValidationError", "OSError"}}

InitError ==
    /\ ein \in ErrorInputs
    /\ eout = NoErr
    /\ pin = NoPageIn
    /\ pout = NoPageOut
    /\ users = {}
    /\ clock = 0
    /\ request = NoHttp
    /\ response = NoResponse
    /\ sin = NoSvc
    /\ sout = NoSvc
    /\ gone = {}
    /\ MapperQuiet
    /\ DBQuiet

\* `raise ServerError(...)` or the raise of another exception: what leaves
\* the handler is the exception, or the one its construction raised
RaiseError ==
    /\ eout.stage = "none"
    /\ eout' = [stage |-> "raised",
                made |-> IF ein.class = "ServerError"
                         THEN ServerErrorInit(ein.message, ein.status_code, ein.detail)
                         ELSE Return(PlainError(ein.class, ein.message))]
    /\ UNCHANGED <<pin, pout, users, clock, request, response, sin, sout, ein, gone, mapin, mapout,
                 engine, objects, held, tasks, dbout>>

\* the exception reaches the exception handlers
HandleError ==
    /\ eout.stage = "raised"
    /\ eout' = [stage |-> "answered", made |-> eout.made,
                resp |-> ExceptionDispatch(IF eout.made.kind = "return"
                                           THEN eout.made.value ELSE eout.made.err)]
    /\ UNCHANGED <<pin, pout, users, clock, request, response, sin, sout, ein, gone, mapin, mapout,
                 engine, objects, held, tasks, dbout>>

NextError == RaiseError \/ HandleError

SpecError == InitError /\ [][NextError]_vars

(***************************************************************************)
(* Properties of the pagination link calculator (SpecPage)                 *)
(***************************************************************************)
\* the start offset of page p in the repository's list query
StartOffset(page, limit) == (page - 1) * limit

\* C1: for limit > 0 and total_records >= 0 the total_pages returned by
\* create_response is ceil(total_records / limit), the least integer k with
\* k * limit >= total_records (0 when there are no records), whatever the
\* page and base_url.
C1_TotalPagesIsCeil ==
    pout.done =>
        LET k == pout.res.total_pages
        IN /\ k * pin.limit >= pin.total_records
           /\ (k - 1) * pin.limit < pin.total_records
           /\ (pin.total_records = 0 => k = 0)

\* the spec's example: 5 records with limit 2 make 3 pages
C1_Witness ==
    /\ pout.done
    /\ pin.total_records = 5
    /\ pin.limit = 2
    /\ pout.res.total_pages = 3

\* C2: previous is null exactly when page = 1 or
\* total_records - (page-1)*limit <= 0, and a link in every other case.
C2_PreviousNullExactly ==
    pout.done =>
        /\ pout.res.previous.none <=>
              (pin.page = 1 \/ pin.total_records - (pin.page - 1) * pin.limit <= 0)
        /\ (~pout.res.previous.none => Len(pout.res.previous.str) > 0)

\* page 2 of 2 records with limit 1: previous is a link (the unit test's case)
C2_Witness ==
    /\ pout.done
    /\ pin.page = 2
    /\ pin.limit = 1
    /\ pin.total_records = 2
    /\ ~pout.res.previous.none

\* C3: next is null exactly when total_records - page*limit <= 0, that is
\* exactly when no record exists at the start offset of page + 1.
C3_NextNullExactly ==
    pout.done =>
        /\ pout.res.next.none <=> (pin.total_records - pin.page * pin.limit <= 0)
        /\ pout.res.next.none <=> ~(StartOffset(pin.page + 1, pin.limit) < pin.total_records)

\* a page exactly filled by the last records has no next; one record more
\* gives it one
C3_Witness ==
    /\ pout.done
    /\ pin.page = 3
    /\ pin.limit = 1
    /\ pin.total_records = 4
    /\ ~pout.res.next.none

\* C5: a non-null next is built by one of three rules chosen by the query
\* parameters of base_url: a page parameter is rewritten to page+1; else,
\* with a limit parameter, "&page={page+1}" is appended; else
\* "?page={page+1}&limit=1" is appended.
C5_NextByThreeRules ==
    (pout.done /\ ~pout.res.next.none) =>
        pout.res.next.str =
            IF HasParam(pin.query, S_page)
            THEN RenderUrl(SetPageParam(pin.query, pin.page + 1))
            ELSE IF HasParam(pin.query, S_limit)
                 THEN pin.base_url \o <<"&">> \o S_page_eq \o StrInt(pin.page + 1)
                 ELSE pin.base_url \o <<"?">> \o S_page_eq \o StrInt(pin.page + 1)
                      \o <<"&">> \o S_limit \o <<"=", "1">>

\* C6: a previous (next) made from a base_url with a page parameter is
\* base_url with that parameter's value replaced by page-1 (page+1) and
\* every other parameter untouched.
C6_PageParamRewritten ==
    (pout.done /\ HasParam(pin.query, S_page)) =>
        /\ ~pout.res.previous.none =>
              pout.res.previous.str = RenderUrl(SetPageParam(pin.query, pin.page - 1))
        /\ ~pout.res.next.none =>
              pout.res.next.str = RenderUrl(SetPageParam(pin.query, pin.page + 1))

(***************************************************************************)
(* Properties of the request handlers (Spec)                               *)
(***************************************************************************)
\* the records the list query returns for a page of the table
PageRecords(table, page, limit) ==
    LimitOffset(SortDesc(table), limit, StartOffset(page, limit))

\* user_id names a stored row
Identifies(table, user_id) == UUIDParse(user_id).ok /\ HasId(table, UUIDParse(user_id).hex)

\* C4 as stated: for page > 1 previous is set to null by the offset
\* condition exactly when no record exists at the start offset of the
\* PREVIOUS page, page - 1.
C4_NullIffPreviousPageEmpty ==
    (response.kind = "page" /\ response.body.page > 1) =>
        LET b == response.body
        IN (b.total_records - (b.page - 1) * b.limit <= 0)
               <=> (PageRecords(users, b.page - 1, b.limit) = <<>>)

\* C4 amended: for page > 1 the condition total_records - (page-1)*limit <= 0,
\* under which previous is null, holds exactly when no record exists at the
\* start offset (page-1)*limit of the requested page itself, that is when
\* the page's own records list is empty.
C4_NullIffOwnPageEmpty ==
    (response.kind = "page" /\ response.body.page > 1) =>
        LET b == response.body
        IN /\ (b.total_records - (b.page - 1) * b.limit <= 0)
                  <=> (PageRecords(users, b.page, b.limit) = <<>>)
           /\ b.previous.none <=> (b.records = <<>>)
           /\ b.records = [i \in 1..Len(PageRecords(users, b.page, b.limit)) |->
                              to_domain(DictToObj(PageRecords(users, b.page, b.limit)[i]))]

\* page 2 with limit 1 of a one-row table: page 1 holds the row, page 2 is
\* empty and has no previous link
C4_Witness ==
    /\ response.kind = "page"
    /\ response.body.page = 2
    /\ response.body.limit = 1
    /\ response.body.total_records = 1
    /\ response.body.records = <<>>
    /\ response.body.previous.none
    /\ PageRecords(users, 1, 1) # <<>>

\* C7: every request to a user endpoint ends in exactly one status: 422 when
\* validation fails, 201 for a successful POST, 200 for any other success,
\* 404 when the service reports not-found, 500 for an internal error or an
\* unclassified exception; no other status is produced.
C7_StatusTaxonomy ==
    request.method # "none" =>
        /\ response.status \in {HTTP_200_OK, HTTP_201_CREATED, HTTP_404_NOT_FOUND,
                                HTTP_422_UNPROCESSABLE_ENTITY, HTTP_500_INTERNAL_SERVER_ERROR}
        /\ response.status = HTTP_422_UNPROCESSABLE_ENTITY <=> ~response.log.validated
        /\ response.status = HTTP_201_CREATED
              <=> (request.method = "POST" /\ response.kind = "user")
        /\ response.status = HTTP_200_OK
              <=> (request.method # "POST" /\ response.kind \in {"user", "page"})
        /\ response.status = HTTP_404_NOT_FOUND
              <=> (request.method \in {"GET", "PUT", "DELETE"} /\ response.log.repo = "absent")

\* C8: GET, PUT (with a valid body) and DELETE of a user_id that identifies
\* no stored user answer 404 with is_operational true, the repository having
\* returned None, and leave the users table unchanged.
C8_UnknownIdIs404 ==
    [][(/\ request'.method \in {"GET", "PUT", "DELETE"}
        /\ request'.fault = "none"
        /\ (request'.method = "PUT" => ValidUserRequest(request'.body))
        /\ ~Identifies(users, request'.user_id))
       => (/\ response'.status = HTTP_404_NOT_FOUND
           /\ response'.kind = "error"
           /\ response'.body.is_operational
           /\ response'.log.repo = "absent"
           /\ users' = users)]_vars

\* C9: a POST /users or PUT /users/{id} whose email is not an email or whose
\* name is longer than 256 characters is answered 422 with is_operational
\* true before the service is invoked: neither the service nor the
\* repository is called and no row is created or changed.
C9_InvalidBodyIs422 ==
    [][(/\ request'.method \in {"POST", "PUT"}
        /\ (~IsEmail(request'.body.email) \/ Len(request'.body.name) > MaxNameLen))
       => (/\ response'.status = HTTP_422_UNPROCESSABLE_ENTITY
           /\ response'.kind = "error"
           /\ response'.body.is_operational
           /\ response'.log.service_calls = 0
           /\ response'.log.repo_calls = 0
           /\ users' = users)]_vars

\* scenario B: a POST with the email "notanemail" was answered 422
C9_Witness ==
    /\ request.method = "POST"
    /\ request.body.email = E_bad
    /\ request.fault = "none"
    /\ response.status = HTTP_422_UNPROCESSABLE_ENTITY
    /\ response.body.is_operational

(***************************************************************************)
(* Properties of UserService (SpecService)                                 *)
(***************************************************************************)
\* C10: when the repository call returns normally, a non-None value is
\* returned unchanged; None from read_user, update_user or delete_user
\* raises ServerError 404 (operational); None from create_user, or a None
\* records or total from read_and_count_users, raises ServerError 500
\* (not operational).
C10_ServiceClassifies ==
    (sout.done /\ sin.stub.kind = "return") =>
        LET v == sin.stub.value
            absent == IF sin.op = "list" THEN v.records_none \/ v.total_none ELSE v.is_none
        IN IF ~absent THEN sout.res = Return(v)
           ELSE /\ sout.res.kind = "raise"
                /\ sout.res.err.type = "ServerError"
                /\ IF sin.op \in {"read", "update", "delete"}
                   THEN /\ sout.res.err.status_code = HTTP_404_NOT_FOUND
                        /\ sout.res.err.is_operational
                   ELSE /\ sout.res.err.status_code = HTTP_500_INTERNAL_SERVER_ERROR
                        /\ ~sout.res.err.is_operational

\* create_user returned None and register_user raised the 500
C10_Witness ==
    /\ sout.done
    /\ sin.op = "create"
    /\ sin.stub = Return(None)
    /\ sout.res.kind = "raise"
    /\ sout.res.err.message = "User could not be created"
    /\ sout.res.err.status_code = HTTP_500_INTERNAL_SERVER_ERROR

\* the cause a raised exception carries: str(err.detail.cause) of a
\* ServerError, str(err) of any other exception
OriginalCause(err) == IF err.type = "ServerError" THEN err.detail.cause ELSE err.message

\* C11: whenever the repository call raises any exception (a plain
\* exception, a ServerError with a Detail, or a ServerError raised without a
\* Detail), each of the five service operations raises a ServerError with
\* status 500 and is_operational false whose detail carries the original
\* cause; no other exception type escapes the service.
C11_ServiceWrapsEveryFault ==
    (sout.done /\ sin.stub.kind = "raise") =>
        /\ sout.res.kind = "raise"
        /\ sout.res.err.type = "ServerError"
        /\ sout.res.err.status_code = HTTP_500_INTERNAL_SERVER_ERROR
        /\ ~sout.res.err.is_operational
        /\ ~sout.res.err.detail.none
        /\ sout.res.err.detail.cause = OriginalCause(sin.stub.err)

(***************************************************************************)
(* Properties of the errors and their handlers (SpecError, Spec)           *)
(***************************************************************************)
\* C12: every error response carries is_operational = true exactly when
\* its status is in the 4xx range and false when it is in the 5xx range,
\* and a ServerError built without a status code has status 500 and
\* is_operational false.
C12_OperationalIff4xx ==
    /\ (eout.stage = "answered" /\ eout.resp.kind = "error") =>
           /\ eout.resp.body.is_operational <=> eout.resp.status \in 400..499
           /\ eout.resp.status \in 500..599 => ~eout.resp.body.is_operational
    /\ (eout.stage # "none" /\ ein.class = "ServerError" /\ ein.status_code = NoStatus) =>
           /\ eout.made.kind = "return"
           /\ eout.made.value.status_code = HTTP_500_INTERNAL_SERVER_ERROR
           /\ ~eout.made.value.is_operational

\* C13: an exception that reaches the HTTP boundary and is neither a
\* ServerError nor a request-validation error is answered by
\* handle_common_error with status 500 and the envelope {message, detail,
\* is_operational = false}; the handler itself never raises.
C13_CommonErrorAnswers500 ==
    (request.method # "none"
     /\ response.raised \notin {"none", "ServerError", "RequestValidationError"}) =>
        /\ response.kind = "error"
        /\ response.status = HTTP_500_INTERNAL_SERVER_ERROR
        /\ ~response.body.is_operational

(***************************************************************************)
(* Properties of the users table under the request handlers (Spec)         *)
(***************************************************************************)
\* the stored row a UserResponse shows
RowOf(body) ==
    [id |-> [hex |-> body.id], name |-> body.name, email |-> body.email,
     created_at |-> body.created_at, updated_at |-> body.updated_at]

\* a successful create: one row more, a fresh id, a creation time, no
\* update time, the request's name
Created ==
    /\ users' = users \cup {RowOf(response'.body)}
    /\ Cardinality(users') = Cardinality(users) + 1
    /\ ~HasId(users, response'.body.id)
    /\ response'.body.name = request'.body.name
    /\ response'.body.created_at # NullTime
    /\ response'.body.updated_at = NullTime

\* C14 as stated: a successful create adds exactly one row and returns a
\* user whose id is new and distinct from every existing id, whose name and
\* email equal the request's, whose created_at is non-null and whose
\* updated_at is null.
C14_CreateReturnsRequestEmail ==
    [][(request'.method = "POST" /\ response'.status = HTTP_201_CREATED)
       => (Created /\ response'.body.email = request'.body.email)]_vars

\* C14 amended: a successful create adds exactly one row and returns a user
\* whose id is new and distinct from every existing id, whose name equals
\* the request's, whose email is the request's email as EmailStr holds it
\* (surrounding whitespace stripped, domain in lower case), whose
\* created_at is non-null and whose updated_at is null.
C14_CreateReturnsValidatedEmail ==
    [][(request'.method = "POST" /\ response'.status = HTTP_201_CREATED)
       => (Created /\ response'.body.email = validate_email(request'.body.email).email)]_vars

\* a second user was created from an address sent with an upper-case domain
C14_Witness ==
    /\ request.method = "POST"
    /\ request.body.email = E_A
    /\ response.status = HTTP_201_CREATED
    /\ response.body.email = E_a
    /\ response.body.updated_at = NullTime
    /\ Cardinality(users) = 2
    /\ RowOf(response.body) \in users

\* C15: a successful update of an existing user changes only that user's
\* name, email and updated_at: its id and created_at are unchanged,
\* updated_at is non-null afterwards, the row count is unchanged and every
\* other user's row is unchanged; created_at never changes after creation
\* under any sequence of operations.
C15_UpdateFrame ==
    [][/\ (request'.method = "PUT" /\ response'.status = HTTP_200_OK) =>
            /\ UUIDParse(request'.user_id).ok
            /\ response'.body.id = UUIDParse(request'.user_id).hex
            /\ HasId(users, response'.body.id)
            /\ LET old == RowWithId(users, response'.body.id)
                    new == RowOf(response'.body)
               IN /\ users' = (users \ {old}) \cup {new}
                  /\ new.id = old.id
                  /\ new.created_at = old.created_at
                  /\ new.updated_at # NullTime
                  /\ new.name = UserRequest(request'.body).name
                  /\ new.email = UserRequest(request'.body).email
                  /\ users' \ {new} = users \ {old}
            /\ Cardinality(users') = Cardinality(users)
       /\ \A r \in users : \A q \in users' : q.id = r.id => q.created_at = r.created_at]_vars

\* scenario E: a user created at time 1 was updated at time 2 and keeps its
\* creation time
C15_Witness ==
    /\ request.method = "PUT"
    /\ response.status = HTTP_200_OK
    /\ response.body.created_at = 1
    /\ response.body.updated_at = 2
    /\ response.body.email = E_b
    /\ users = {RowOf(response.body)}

\* a successful DELETE: the addressed row is returned and removed, nothing
\* else changes
Deleted ==
    (request'.method = "DELETE" /\ response'.status = HTTP_200_OK) =>
        /\ response'.body.id = UUIDParse(request'.user_id).hex
        /\ RowOf(response'.body) \in users
        /\ users' = users \ {RowOf(response'.body)}
        /\ Cardinality(users') = Cardinality(users) - 1

\* the request addresses a user that was deleted before
ForDeleted(req) ==
    /\ req.method \in {"GET", "PUT", "DELETE"}
    /\ UUIDParse(req.user_id).ok
    /\ UUIDParse(req.user_id).hex \in gone

UniqueEmails(table) == \A r \in table : \A q \in table : r.email = q.email => r = q

\* the request would store an email that another row already carries
WouldDuplicate(table, req) ==
    /\ req.method \in {"POST", "PUT"}
    /\ ValidUserRequest(req.body)
    /\ \E r \in table :
          /\ r.email = UserRequest(req.body).email
          /\ (req.method = "PUT" => r.id.hex # UUIDParse(req.user_id).hex)

C18_NamesNonEmptyAtMost256 ==
    [][/\ \A r \in users' : Len(r.name) \in 1..MaxNameLen
       /\ (request'.method \in {"POST", "PUT"}
            /\ (request'.body.name = <<>> \/ Len(request'.body.name) > MaxNameLen)) =>
              /\ response'.status = HTTP_422_UNPROCESSABLE_ENTITY
              /\ response'.log.service_calls = 0
              /\ users' = users]_vars

(***************************************************************************)
(* Properties of the paginated list (Spec)                                 *)
(***************************************************************************)
\* C19: for GET /users, page and limit default to 1 when omitted, and the
\* page and limit that reach retrieve_and_count_users and create_response
\* are always positive integers: a request with page <= 0 or limit <= 0
\* never reaches the offset computation (page-1)*limit or the division
\* total_records / limit.
C19_PageAndLimitPositive ==
    request.method = "LIST" =>
        LET page == QueryInt(request.query, S_page)
            limit == QueryInt(request.query, S_limit)
        IN /\ (~HasParam(request.query, S_page) => (page.ok /\ page.val = 1))
           /\ (~HasParam(request.query, S_limit) => (limit.ok /\ limit.val = 1))
           /\ (response.kind = "page" =>
                  (response.body.page = page.val /\ response.body.limit = limit.val))
           /\ (response.log.service_calls > 0 => (page.val >= 1 /\ limit.val >= 1))

\* the number of rows created after the given time
NewerThan(table, created_at) == Cardinality({r \in table : r.created_at > created_at})

\* the row a returned User stands for
RowOfUser(user) ==
    [id |-> [hex |-> user.id.str], name |-> user.name, email |-> user.email,
     created_at |-> user.created_at, updated_at |-> user.updated_at]

\* C20: with N users stored (distinct creation times),
\* read_and_count_users(page, limit) for page >= 1 and limit >= 1 returns
\* total = N and as records the users at positions (page-1)*limit up to
\* (page-1)*limit + limit - 1 of the list of all users ordered
\* most-recently-created first (none when (page-1)*limit >= N), in that
\* order, and does not modify the table.
C20_PageOfNewestFirst ==
    [][(request'.method = "LIST" /\ response'.kind = "page") =>
          LET b == response'.body
              N == Cardinality(users)
              offset == (b.page - 1) * b.limit
          IN /\ b.page >= 1
             /\ b.limit >= 1
             /\ b.total_records = N
             /\ Len(b.records) = IF offset >= N THEN 0 ELSE Min(b.limit, N - offset)
             /\ \A i \in 1..Len(b.records) :
                   /\ RowOfUser(b.records[i]) \in users
                   /\ NewerThan(users, b.records[i].created_at) = offset + i - 1
             /\ users' = users]_vars

\* two users are stored; page 2 with limit 1 holds the one created first
C20_Witness ==
    /\ request.method = "LIST"
    /\ response.kind = "page"
    /\ response.body.page = 2
    /\ response.body.limit = 1
    /\ response.body.total_records = 2
    /\ Len(response.body.records) = 1
    /\ NewerThan(users, response.body.records[1].created_at) = 1

(***************************************************************************)
(* user_mapper.py as a chain of conversions                                *)
(***************************************************************************)
\* a Python dict: its entries are keys, not attributes
PyDict(v) == [kind |-> "dict", value |-> v]

\* a Python object (a UserRequest, a DictToObj) with the attributes DOMAIN v
PyObject(v) == [kind |-> "object", value |-> v]

\* hasattr(raw, name)
hasattr(raw, name) == raw.kind = "object" /\ name \in DOMAIN raw.value

\* UserMapper.to_persistence(user) with the type of what it returns
to_persistence_raw(user) == PyDict(to_persistence(user))

\* UserMapper.to_domain(raw) for any raw: id and the timestamps are read
\* under hasattr, name and email by plain attribute access
to_domain_raw(raw) ==
    IF ~hasattr(raw, "name")
    THEN Raise(PlainError("AttributeError", "object has no attribute 'name'"))
    ELSE IF ~hasattr(raw, "email")
    THEN Raise(PlainError("AttributeError", "object has no attribute 'email'"))
    ELSE Return([is_none |-> FALSE,
                 id |-> IF hasattr(raw, "id") THEN SomeStr(raw.value.id) ELSE NoneStr,
                 name |-> raw.value.name,
                 email |-> raw.value.email,
                 created_at |-> IF hasattr(raw, "created_at")
                                THEN raw.value.created_at ELSE NullTime,
                 updated_at |-> IF hasattr(raw, "updated_at")
                                THEN raw.value.updated_at ELSE NullTime])

\* storage rows: every id of the pool, a short and the longest name, two
\* addresses, created at 1 or 2, never updated or updated at 2
MapperRows ==
    {[id |-> [hex |-> h], name |-> n, email |-> e, created_at |-> c, updated_at |-> u] :
        h \in IdPool, n \in {<<>>, <<"a">>, NameOfLen(MaxNameLen)}, e \in {E_a, E_b},
        c \in 1..2, u \in {NullTime, 2}}

\* the validated wire requests
MapperRequests == {UserRequest(b) : b \in {c \in Bodies : ValidUserRequest(c)}}

\* what a chain starts from: a wire request or a storage row, as the
\* objects the handlers and the repository hand to to_domain
MapperInputs ==
    {PyObject(r) : r \in MapperRequests} \cup {PyObject(DictToObj(r)) : r \in MapperRows}

InitMapper ==
    /\ mapin \in MapperInputs
    /\ mapout = [stage |-> "raw", value |-> mapin, trace |-> <<>>]
    /\ pin = NoPageIn
    /\ pout = NoPageOut
    /\ users = {}
    /\ clock = 0
    /\ request = NoHttp
    /\ response = NoResponse
    /\ sin = NoSvc
    /\ sout = NoSvc
    /\ ein = NoErr
    /\ eout = NoErr
    /\ gone = {}
    /\ DBQuiet

\* what a conversion leaves: its value, or the exception it raised
Converted(stage, res, fn) ==
    [stage |-> IF res.kind = "raise" THEN "raised" ELSE stage,
     value |-> IF res.kind = "raise" THEN res.err ELSE res.value,
     source |-> mapout.value,
     trace |-> Append(mapout.trace, fn)]

\* UserMapper.to_domain(raw)
ToDomain ==
    /\ mapout.stage = "raw"
    /\ mapout' = Converted("user", to_domain_raw(mapout.value), "to_domain")
    /\ UNCHANGED <<pin, pout, users, clock, request, response, sin, sout, ein, eout, gone,
                   mapin, engine, objects, held, tasks, dbout>>

\* UserMapper.to_persistence(user)
ToPersistence ==
    /\ mapout.stage = "user"
    /\ Len(mapout.trace) < 2
    /\ mapout' = Converted("raw", Return(to_persistence_raw(mapout.value)), "to_persistence")
    /\ UNCHANGED <<pin, pout, users, clock, request, response, sin, sout, ein, eout, gone,
                   mapin, engine, objects, held, tasks, dbout>>

\* UserMapper.to_response(user)
ToResponse ==
    /\ mapout.stage = "user"
    /\ mapout' = Converted("response", to_response(mapout.value), "to_response")
    /\ UNCHANGED <<pin, pout, users, clock, request, response, sin, sout, ein, eout, gone,
                   mapin, engine, objects, held, tasks, dbout>>

NextMapper == ToDomain \/ ToPersistence \/ ToResponse

SpecMapper == InitMapper /\ [][NextMapper]_vars

(***************************************************************************)
(* db_service.py, container.py, health_check: the engine handle, the       *)
(* providers and the coroutines of concurrent requests, one await at a time *)
(***************************************************************************)
\* a database url without a scheme
Url_bad == <<"d", "b">>

DatabaseUrls == {<<"p", "g", ":", "/", "/", "d", "b">>, Url_bad}

\* create_async_engine(url=database_url): the url has to parse as name://...
create_async_engine(url) ==
    IF Contains(url, <<":", "/", "/">>) /\ ~MatchAt(url, 1, <<":", "/", "/">>)
    THEN Return([none |-> FALSE, url |-> url])
    ELSE Raise(PlainError("ArgumentError", "Could not parse SQLAlchemy URL"))

\* the async_engine property
async_engine(handle) ==
    IF ~handle.none THEN Return(handle)
    ELSE Raise(ServerError("Async engine is None!", HTTP_500_INTERNAL_SERVER_ERROR, NoDetail))

\* connect_database(database_url): the handle is assigned when the engine
\* was created
connect_database(handle, database_url) ==
    LET made == create_async_engine(database_url)
    IN IF made.kind = "raise"
       THEN [res |-> Raise(ServerError("An error occurred when connecting to database",
                                       HTTP_500_INTERNAL_SERVER_ERROR, Detail("None"))),
             engine |-> handle]
       ELSE [res |-> Return(None), engine |-> made.value]

disconnect_database_cleared(handle, fault) ==
    LET message == "An error occurred when disconnecting the database"
    IN IF handle.none
       THEN [res |-> Raise(ServerError(message, HTTP_500_INTERNAL_SERVER_ERROR, Detail("None"))),
             engine |-> handle]
       ELSE IF fault = "dispose"
       THEN [res |-> Raise(ServerError(message, HTTP_500_INTERNAL_SERVER_ERROR,
                                       Detail("ConnectionError"))),
             engine |-> NoEngine]
       ELSE [res |-> Return(None), engine |-> NoEngine]

\* disconnect_database(): dispose() is awaited on the handle, None included,
\* and the handle is cleared after it returned
disconnect_database(handle, fault) ==
    LET message == "An error occurred when disconnecting the database"
    IN IF handle.none
       THEN [res |-> Raise(ServerError(message, HTTP_500_INTERNAL_SERVER_ERROR, Detail("None"))),
             engine |-> handle]
       ELSE IF fault = "dispose"
       THEN [res |-> Raise(ServerError(message, HTTP_500_INTERNAL_SERVER_ERROR,
                                       Detail("ConnectionError"))),
             engine |-> handle]
       ELSE [res |-> Return(None), engine |-> NoEngine]

resolve_factory(objs, p) == [objs EXCEPT ![p] = @ + 1]

\* providers.Singleton: the object is built at the first resolution and
\* returned at every later one; objs[p] counts the objects p has built
resolve(objs, p) == IF objs[p] # 0 THEN objs ELSE [objs EXCEPT ![p] = 1]

\* the providers a request resolves: the router's dependencies and what
\* their objects are built from
ProvidersOf(op) ==
    IF op = "health" THEN {"health_check_service_provider", "db_service_provider"}
    ELSE {"user_service_provider", "user_repository_provider", "db_service_provider",
          "api_pagination_service_provider"}

Inject(objs, op) ==
    [p \in Providers |-> IF p \in ProvidersOf(op) THEN resolve(objs, p)[p] ELSE objs[p]]

\* Server.__init__: the container is made and its DBService resolved
ServerObjects == resolve(NoObjects, "db_service_provider")

\* the calls the coroutines make: the five repository operations and the
\* liveness check
NoCall == [op |-> "none", user_id |-> <<>>, user |-> None, page |-> 1, limit |-> 1]

\* one user is created, and the row drawn first is the one read, updated
\* and deleted; the first page is listed one row a page
TaskCalls ==
    {[NoCall EXCEPT !.op = "create", !.user = to_domain_request([name |-> <<"a">>, email |-> E_a])],
     [NoCall EXCEPT !.op = "read", !.user_id = UuidHex(1)],
     [NoCall EXCEPT !.op = "update", !.user_id = UuidHex(1),
                    !.user = to_domain_request([name |-> <<"a">>, email |-> E_b])],
     [NoCall EXCEPT !.op = "delete", !.user_id = UuidHex(1)],
     [NoCall EXCEPT !.op = "list"],
     [NoCall EXCEPT !.op = "health"]}

IsWrite(op) == op \in {"create", "update", "delete"}

\* the statement(s) of the call run on the table as one transaction
RepoCall(call, table, newid, now, fault) ==
    CASE call.op = "create" -> create_user(table, call.user, newid, now, fault)
      [] call.op = "list" -> read_and_count_users(table, call.page, call.limit, fault)
      [] call.op = "read" -> read_user(table, call.user_id, fault)
      [] call.op = "update" -> update_user(table, call.user_id, call.user, now, fault)
      [] call.op = "delete" -> delete_user(table, call.user_id, fault)
      [] call.op = "health" ->
            IF fault = "none" THEN [res |-> Return(TRUE), table |-> table]
            ELSE RepoFailure("An error occurred when checking database is alive",
                             "ConnectionError", table)

execute_effect_autocommit(table, written) == written

\* conn.execute(query): what the statement wrote stays in the connection's
\* transaction; the table other connections read is as it was
execute_effect(table, written) == table

connection_exit_on_return(count, out) == IF out.kind = "raise" THEN count ELSE count - 1

\* the end of `async with ... connect() as conn`: the connection is given
\* back however the block is left
connection_exit(count, out) == count - 1

check_health_reported(alive) ==
    IF alive.kind = "raise" THEN Return(FALSE) ELSE Return(alive.value)

\* HealthCheckService.check_health, given what check_database_is_alive did
check_health(alive) ==
    LET message == "An error occurred when checking if application is healthy"
    IN IF alive.kind = "return" THEN Return(alive.value)
       ELSE IF alive.err.type = "ServerError"
       THEN IF alive.err.detail.none
            THEN Raise(PlainError("AttributeError", "object has no attribute 'cause'"))
            ELSE Raise(ServerError(message, HTTP_500_INTERNAL_SERVER_ERROR,
                                   Detail(alive.err.detail.cause)))
       ELSE Raise(ServerError(message, HTTP_500_INTERNAL_SERVER_ERROR,
                              Detail(alive.err.message)))

\* HealthCheckMapper.to_response(is_healthy)
HealthCheckResponse(is_healthy) == [healthy |-> is_healthy]

\* get_health: GET /health
get_health(svc) ==
    IF svc.kind = "raise" THEN ExceptionDispatch(svc.err)
    ELSE [status |-> HTTP_200_OK, kind |-> "health",
          body |-> HealthCheckResponse(svc.value), raised |-> "none"]

\* the engine a call connects through: the repository reads the async_engine
\* property, check_database_is_alive the attribute itself
EngineFor(op, handle) ==
    IF op # "health" THEN async_engine(handle)
    ELSE IF handle.none
         THEN Raise(PlainError("AttributeError", "'NoneType' object has no attribute 'connect'"))
         ELSE Return(handle)

\* a coroutine that holds row locks: its write statement ran and its
\* transaction is neither committed nor rolled back
HoldsWrite(task) == task.pc \in {"executed", "failed"} /\ task.wrote

\* the call is over: what it left to its awaiter and, for GET /health, the
\* answer of the endpoint
Ended(task, out, failed_at) ==
    [pc |-> "done", call |-> task.call, out |-> out, failed_at |-> failed_at,
     changed |-> task.changed,
     svc |-> IF task.call.op = "health" THEN check_health(out)
             ELSE UserService(task.call.op, out),
     resp |-> IF task.call.op = "health" THEN get_health(check_health(out))
              ELSE NoResponse]

InitDB ==
    /\ engine = NoEngine
    /\ objects = ServerObjects
    /\ held = 0
    /\ tasks = [t \in Tasks |-> NoTask]
    /\ dbout = NoDB
    /\ pin = NoPageIn
    /\ pout = NoPageOut
    /\ users = {}
    /\ clock = 0
    /\ request = NoHttp
    /\ response = NoResponse
    /\ sin = NoSvc
    /\ sout = NoSvc
    /\ ein = NoErr
    /\ eout = NoErr
    /\ gone = {}
    /\ MapperQuiet

\* the lifecycle calls are made while no request is in progress
Quiescent == dbout = NoDB /\ \A t \in Tasks : tasks[t].pc = "idle"

\* db_service.connect_database(database_url)
ConnectDatabase ==
    /\ Quiescent
    /\ \E url \in DatabaseUrls :
         /\ engine' = connect_database(engine, url).engine
         /\ dbout' = [op |-> "connect", url |-> url, before |-> engine,
                      res |-> connect_database(engine, url).res]
    /\ UNCHANGED <<pin, pout, users, clock, request, response, sin, sout, ein, eout, gone,
                   mapin, mapout, objects, held, tasks>>

\* await db_service.disconnect_database()
DisconnectDatabase ==
    /\ Quiescent
    /\ \E fault \in {"none", "dispose"} :
         /\ engine' = disconnect_database(engine, fault).engine
         /\ dbout' = [op |-> "disconnect", url |-> <<>>, before |-> engine,
                      res |-> disconnect_database(engine, fault).res]
    /\ UNCHANGED <<pin, pout, users, clock, request, response, sin, sout, ein, eout, gone,
                   mapin, mapout, objects, held, tasks>>

\* db_service.async_engine
ReadAsyncEngine ==
    /\ Quiescent
    /\ dbout' = [op |-> "async_engine", url |-> <<>>, before |-> engine,
                 res |-> async_engine(engine)]
    /\ UNCHANGED <<pin, pout, users, clock, request, response, sin, sout, ein, eout, gone,
                   mapin, mapout, engine, objects, held, tasks>>

\* the lifecycle call is over
DoneDB ==
    /\ dbout # NoDB
    /\ dbout' = NoDB
    /\ UNCHANGED <<pin, pout, users, clock, request, response, sin, sout, ein, eout, gone,
                   mapin, mapout, engine, objects, held, tasks>>

\* a coroutine moves: its record changes, and it is charged with every
\* change of the table made in its step
Step(t, next, table) ==
    /\ tasks' = [tasks EXCEPT ![t] =
                    IF next.pc = "idle" THEN next
                    ELSE [next EXCEPT !.changed = next.changed \/ table # users]]
    /\ users' = table
    /\ gone' = gone \cup ({r.id.hex : r \in users} \ {r.id.hex : r \in table})
    /\ UNCHANGED <<pin, pout, request, response, sin, sout, ein, eout, mapin, mapout,
                   engine, dbout>>

\* a request arrives: its dependencies are injected, and the call enters
\* `async with <engine>.connect() as conn`
Begin ==
    /\ dbout = NoDB
    /\ \E t \in Tasks, call \in TaskCalls, fault \in {"none", "connect"} :
         LET got == EngineFor(call.op, engine)
             task == [pc |-> "connected", call |-> call, out |-> Return(None),
                      failed_at |-> "none", changed |-> FALSE, wrote |-> FALSE,
                      newid |-> <<>>, now |-> NullTime]
         IN /\ tasks[t].pc = "idle"
            /\ objects' = Inject(objects, call.op)
            /\ IF got.kind = "raise"
               THEN /\ Step(t, Ended(task, got, "engine"), users)
                    /\ UNCHANGED <<held, clock>>
               ELSE IF fault = "connect"
               THEN /\ Step(t, Ended(task, ConnectFailure(users).res, "connect"), users)
                    /\ UNCHANGED <<held, clock>>
               ELSE /\ Step(t, task, users)
                    /\ held' = held + 1
                    /\ UNCHANGED clock

\* await conn.execute(query), up to the next await: the statement of a
\* write waits for the row locks of an open transaction; INSERT draws its id
\* and both INSERT and UPDATE read now()
Execute ==
    \E t \in Tasks, fault \in {"none", "execute"}, newid \in IdPool \cup {<<>>} :
        LET task == tasks[t]
            stamped == task.call.op \in {"create", "update"}
            now == IF stamped THEN clock + 1 ELSE NullTime
            ran == RepoCall(task.call, users, newid, now, fault)
        IN /\ task.pc = "connected"
           /\ IsWrite(task.call.op) => \A u \in Tasks \ {t} : ~HoldsWrite(tasks[u])
           /\ stamped => clock < MaxClock
           /\ task.call.op = "create" => (newid \in IdPool \ gone /\ ~HasId(users, newid))
           /\ task.call.op # "create" => newid = <<>>
           /\ clock' = IF stamped THEN clock + 1 ELSE clock
           /\ UNCHANGED <<objects, held>>
           /\ IF ran.res.kind = "raise"
              THEN Step(t, [task EXCEPT !.pc = "failed", !.out = ran.res,
                                        !.failed_at = "execute"], users)
              ELSE IF task.call.op = "health"
              THEN Step(t, [task EXCEPT !.pc = "executed", !.out = ran.res], users)
              ELSE IF task.call.op = "list"
              THEN Step(t, [task EXCEPT !.pc = "selected", !.out = ran.res], users)
              ELSE IF ran.res.value.is_none
              THEN Step(t, [task EXCEPT !.pc = "closing", !.out = ran.res], users)
              ELSE Step(t, [task EXCEPT !.pc = "executed", !.out = ran.res,
                                        !.wrote = IsWrite(task.call.op),
                                        !.newid = newid, !.now = now],
                        IF IsWrite(task.call.op) THEN execute_effect(users, ran.table)
                        ELSE users)

\* read_and_count_users: the second statement, select count(id)
Count ==
    \E t \in Tasks, fault \in {"none", "execute"} :
        LET task == tasks[t]
        IN /\ task.pc = "selected"
           /\ UNCHANGED <<objects, held, clock>>
           /\ IF fault = "execute"
              THEN Step(t, [task EXCEPT !.pc = "failed", !.failed_at = "execute",
                                        !.out = RepoCall(task.call, users, <<>>, NullTime,
                                                         "execute").res], users)
              ELSE Step(t, [task EXCEPT !.pc = "executed",
                                        !.out = Return([task.out.value EXCEPT
                                                           !.total = Cardinality(users)])],
                        users)

\* await conn.commit()
Commit ==
    \E t \in Tasks, fault \in {"none", "commit"} :
        LET task == tasks[t]
        IN /\ task.pc = "executed"
           /\ UNCHANGED <<objects, held, clock>>
           /\ IF fault = "commit"
              THEN Step(t, [task EXCEPT !.pc = "failed", !.failed_at = "commit",
                                        !.out = RepoCall(task.call, users, task.newid,
                                                         task.now, "execute").res], users)
              ELSE Step(t, [task EXCEPT !.pc = "closing", !.wrote = FALSE],
                        IF task.wrote
                        THEN RepoCall(task.call, users, task.newid, task.now, "none").table
                        ELSE users)

\* the except branch: await conn.rollback(), then raise ServerError(...)
Rollback ==
    \E t \in Tasks :
        LET task == tasks[t]
        IN /\ task.pc = "failed"
           /\ UNCHANGED <<objects, held, clock>>
           /\ Step(t, [task EXCEPT !.pc = "closing", !.wrote = FALSE], users)

\* the `async with` block is left: by return, by return None or by raise
Release ==
    \E t \in Tasks :
        LET task == tasks[t]
        IN /\ task.pc = "closing"
           /\ held' = connection_exit(held, task.out)
           /\ Step(t, Ended(task, task.out, task.failed_at), users)
           /\ UNCHANGED <<objects, clock>>

\* the request is answered
Finish ==
    \E t \in Tasks :
        /\ tasks[t].pc = "done"
        /\ Step(t, NoTask, users)
        /\ UNCHANGED <<objects, held, clock>>

NextDB ==
    \/ ConnectDatabase \/ DisconnectDatabase \/ ReadAsyncEngine \/ DoneDB
    \/ Begin \/ Execute \/ Count \/ Commit \/ Rollback \/ Release \/ Finish

SpecDB == InitDB /\ [][NextDB]_vars

(***************************************************************************)
(* Properties of the layers below the handlers                             *)
(***************************************************************************)
\* C23: nothing is retried: for each call of a UserService operation the
\* corresponding repository method is invoked exactly once with the
\* caller's arguments, whether that invocation succeeds, returns absence or
\* raises, and a repository failure is raised to the caller immediately as
\* an internal error.
C23_NoRetries ==
    sout.done =>
        /\ Len(sout.calls) = 1
        /\ sout.calls[1].method = RepoMethod(sin.op)
        /\ sout.calls[1].args = sin.args
        /\ sin.stub.kind = "raise" =>
              /\ sout.res.kind = "raise"
              /\ sout.res.err.type = "ServerError"
              /\ sout.res.err.status_code = HTTP_500_INTERNAL_SERVER_ERROR

\* C24: round trip: for every domain user u,
\* UserMapper.to_domain(UserMapper.to_persistence(u)) succeeds and yields a
\* user with the same name and email as u.
C24_RoundTrip ==
    (/\ Len(mapout.trace) >= 2
     /\ mapout.trace[Len(mapout.trace) - 1] = "to_persistence"
     /\ mapout.trace[Len(mapout.trace)] = "to_domain")
    => /\ mapout.stage = "user"
       /\ mapout.value.name = mapin.value.name
       /\ mapout.value.email = mapin.value.email

\* C25: the UserMapper conversions are total: to_domain succeeds on every
\* validated wire request and every storage row, with the fields absent
\* from the input absent in the user, and to_response succeeds on every
\* user to_domain can produce, one without id and created_at included.
C25_ConversionsTotal ==
    /\ mapout.trace = <<"to_domain">> =>
          /\ mapout.stage = "user"
          /\ mapout.value.id.none = ("id" \notin DOMAIN mapin.value)
          /\ (mapout.value.created_at = NullTime) = ("created_at" \notin DOMAIN mapin.value)
    /\ mapout.trace = <<"to_domain", "to_response">> => mapout.stage = "response"

\* the query of the page that follows the answered one, with the same limit
FollowingQuery(body) ==
    <<Param(S_page, StrInt(body.page + 1)), Param(S_limit, StrInt(body.limit))>>

\* C29: pagination metadata agrees with page content: with an unchanging
\* table and any page >= 1 and limit >= 1, the GET /users response for the
\* page has a non-empty records list exactly when page <= total_pages, and
\* its next link is non-null exactly when the response for page + 1 with
\* the same limit has a non-empty records list.
C29_MetadataAgreesWithContent ==
    (response.kind = "page" /\ response.body.page >= 1 /\ response.body.limit >= 1) =>
        LET b == response.body
            following == fetch_paginated_users(users, FollowingQuery(b), "none").resp
        IN /\ (b.records # <<>>) <=> (b.page <= b.total_pages)
           /\ following.kind = "page"
           /\ (~b.next.none) <=> (following.body.records # <<>>)

\* the last page of a two-row table, exactly filled: it has records and no
\* next link, and the page after it is empty
C29_Witness ==
    /\ response.kind = "page"
    /\ response.body.page = 2
    /\ response.body.limit = 1
    /\ response.body.total_pages = 2
    /\ response.body.records # <<>>
    /\ response.body.next.none
    /\ fetch_paginated_users(users, FollowingQuery(response.body), "none").resp.body.records = <<>>

\* the exception is a ServerError with status 500
Is500(res) ==
    /\ res.kind = "raise"
    /\ res.err.type = "ServerError"
    /\ res.err.status_code = HTTP_500_INTERNAL_SERVER_ERROR

C22_ConnectionsReleased ==
    /\ held = Cardinality({t \in Tasks : tasks[t].pc \in {"connected", "selected", "executed",
                                                        "failed", "closing"}})
    /\ (\A t \in Tasks : tasks[t].pc \in {"idle", "done"}) => held = 0

\* two operations are over, one by return None and one by a raised
\* ServerError, and no connection is held
C22_Witness ==
    /\ held = 0
    /\ \E t \in Tasks, u \in Tasks :
          /\ tasks[t].pc = "done"
          /\ tasks[t].failed_at = "execute"
          /\ Is500(tasks[t].out)
          /\ tasks[u].pc = "done"
          /\ tasks[u].call.op = "read"
          /\ tasks[u].out = Return(None)

\* C26: GET /health answers 200 with healthy = true when the database
\* answers the liveness query; when the liveness check fails in any way,
\* check_health raises ServerError with status 500, so the endpoint never
\* answers 200 with healthy = false.
C26_HealthyOr500 ==
    \A t \in Tasks :
        (tasks[t].pc = "done" /\ tasks[t].call.op = "health")
        => /\ tasks[t].out.kind = "return" =>
                 /\ tasks[t].resp.status = HTTP_200_OK
                 /\ tasks[t].resp.kind = "health"
                 /\ tasks[t].resp.body.healthy = TRUE
           /\ tasks[t].out.kind = "raise" => Is500(tasks[t].svc)
           /\ ~(tasks[t].resp.kind = "health" /\ tasks[t].resp.body.healthy = FALSE)

\* the liveness query failed on an open connection and the endpoint
\* answered 500
C26_Witness ==
    \E t \in Tasks :
        /\ tasks[t].pc = "done"
        /\ tasks[t].call.op = "health"
        /\ tasks[t].failed_at = "execute"
        /\ Is500(tasks[t].svc)
        /\ tasks[t].resp.status = HTTP_500_INTERNAL_SERVER_ERROR

\* C27: handling a request never modifies in-process shared state: the
\* DBService's engine handle and the object each provider resolves to are
\* the same before and after every step of every request, however the
\* requests interleave; only connect_database and disconnect_database
\* change the engine handle.
C27_RequestsKeepSharedState ==
    [][/\ tasks' # tasks =>
             /\ engine' = engine
             /\ \A p \in Providers : resolve(objects', p)[p] = resolve(objects, p)[p]
       /\ engine' # engine =>
             /\ dbout = NoDB
             /\ dbout'.op \in {"connect", "disconnect"}]_vars

\* one request was answered while another one is between its statement and
\* its commit, with the engine set and the users service built
C27_Witness ==
    /\ ~engine.none
    /\ objects["user_service_provider"] = 1
    /\ objects["health_check_service_provider"] = 1
    /\ \E t \in Tasks, u \in Tasks :
          /\ tasks[t].pc = "done"
          /\ tasks[t].call.op = "health"
          /\ tasks[u].pc = "executed"
          /\ tasks[u].call.op = "create"

\* C28: the engine handle is set exactly from a successful connect_database
\* until the next successful disconnect_database; the async_engine accessor
\* returns the engine when it is set and raises ServerError (status 500,
\* message 'Async engine is None!') exactly when it is not; a
\* connect_database with an invalid URL and a disconnect_database with no
\* engine set each raise ServerError with status 500 and leave the handle
\* as it was.
C28_EngineLifecycle ==
    [][IF dbout = NoDB /\ dbout' # NoDB
       THEN LET o == dbout'
                ok == o.res.kind = "return"
            IN /\ ~engine'.none <=>
                     \/ (o.op = "connect" /\ ok)
                     \/ (~engine.none /\ ~(o.op = "disconnect" /\ ok))
               /\ o.op = "async_engine" =>
                     IF engine.none
                     THEN Is500(o.res) /\ o.res.err.message = "Async engine is None!"
                     ELSE ok /\ o.res.value = engine
               /\ (o.op = "connect" /\ o.url = Url_bad) => (Is500(o.res) /\ engine' = engine)
               /\ (o.op = "disconnect" /\ engine.none) => (Is500(o.res) /\ engine' = engine)
       ELSE engine'.none = engine.none]_vars

\* the engine was set and dispose() failed: the call raised and the handle
\* is still set
C28_Witness ==
    /\ dbout.op = "disconnect"
    /\ ~dbout.before.none
    /\ Is500(dbout.res)
    /\ ~engine.none

\* C30: a list response is a consistent snapshot even while other requests
\* create or delete users concurrently: for every response of
\* read_and_count_users(page, limit), the page's records and the total come
\* from the same table state, so (page-1)*limit + len(records) <= total.
C30_ListIsSnapshot ==
    \A t \in Tasks :
        (tasks[t].pc = "done" /\ tasks[t].call.op = "list" /\ tasks[t].out.kind = "return")
        => StartOffset(tasks[t].call.page, tasks[t].call.limit)
               + Len(tasks[t].out.value.records) <= tasks[t].out.value.total

====
